---- MODULE Spec2Model ----
(***************************************************************************)
(* Model of lstm.py: the LSTM cell (LSTM_Cell) and the sequence driver     *)
(* (LSTM.forward / LSTM.backward / LSTM.fit).                              *)
(*                                                                         *)
(* Arrays are matrices: a sequence of rows, each a sequence of numbers.    *)
(* Real numbers are fixed point: the integer n stands for n / Scale.       *)
(***************************************************************************)
EXTENDS Integers, Sequences, FiniteSets, TLC

(* ------------------------------------------------------------------ *)
(* Bounds of the model                                                  *)
(* ------------------------------------------------------------------ *)
Scale == 1000
MaxT == 2
MaxCalls == 1

(* ------------------------------------------------------------------ *)
(* Construction-time configuration of the network                       *)
(* ------------------------------------------------------------------ *)
hidden_dim == 2
x_dim == 1
output_dim == 1
concat_dim == hidden_dim + x_dim
learning_rate == 500
NoClip == -1
None == << >>
ClipChoices == {NoClip, 0, 50}
BatchSizes == {1, 3}

Gates == {"c", "u", "o", "f"}
GateOrder == << "c", "u", "o", "f" >>

(* ------------------------------------------------------------------ *)
(* Fixed-point arithmetic                                               *)
(* ------------------------------------------------------------------ *)
Abs(n) == IF n < 0 THEN -n ELSE n

\* n / d rounded to the nearest integer, ties away from zero
Rnd(n, d) == IF n >= 0 THEN (2 * n + d) \div (2 * d)
                       ELSE -((2 * (-n) + d) \div (2 * d))

FMul(a, b) == Rnd(a * b, Scale)

Clamp(v, lo, hi) == IF v < lo THEN lo ELSE IF v > hi THEN hi ELSE v

RECURSIVE SumSeq(_)
SumSeq(s) == IF s = << >> THEN 0 ELSE Head(s) + SumSeq(Tail(s))

(* ------------------------------------------------------------------ *)
(* Array operations (numpy)                                             *)
(* ------------------------------------------------------------------ *)
\* the value of an expression, its operands evaluated once: Val({e(a) : a \in {A}})
Val(S) == CHOOSE v \in S : TRUE

Rows(A) == Len(A)
Cols(A) == Len(A[1])
Shape(A) == << Rows(A), Cols(A) >>

Zeros(r, c) == [i \in 1..r |-> [j \in 1..c |-> 0]]
ZerosLike(A) == Val({Zeros(Rows(a), Cols(a)) : a \in {A}})

Transpose(A) ==
    Val({[j \in 1..Cols(a) |-> [i \in 1..Rows(a) |-> a[i][j]]] : a \in {A}})

VStack(A, B) == A \o B

FirstRows(A, n) == SubSeq(A, 1, n)

MatAdd(A, B) ==
    Val({[i \in 1..Rows(a) |-> [j \in 1..Cols(a) |-> a[i][j] + b[i][j]]]
            : a \in {A}, b \in {B}})
MatSub(A, B) ==
    Val({[i \in 1..Rows(a) |-> [j \in 1..Cols(a) |-> a[i][j] - b[i][j]]]
            : a \in {A}, b \in {B}})

\* elementwise product A * B
Had(A, B) ==
    Val({[i \in 1..Rows(a) |-> [j \in 1..Cols(a) |-> FMul(a[i][j], b[i][j])]]
            : a \in {A}, b \in {B}})

\* 1 - A
OneMinus(A) ==
    Val({[i \in 1..Rows(a) |-> [j \in 1..Cols(a) |-> Scale - a[i][j]]] : a \in {A}})

\* A * s for a scalar s
MatScale(A, s) ==
    Val({[i \in 1..Rows(a) |-> [j \in 1..Cols(a) |-> FMul(a[i][j], s)]] : a \in {A}})

\* M + b, the column b broadcast over the columns of M
AddBias(M, b) ==
    Val({[i \in 1..Rows(m) |-> [j \in 1..Cols(m) |-> m[i][j] + c[i][1]]]
            : m \in {M}, c \in {b}})

\* np.dot(A, B)
Dot(A, B) ==
    Val({[i \in 1..Rows(a) |-> [j \in 1..Cols(b) |->
              Rnd(SumSeq([k \in 1..Cols(a) |-> a[i][k] * b[k][j]]), Scale)]]
            : a \in {A}, b \in {B}})

\* np.sum(A, axis=1, keepdims=True)
RowSum(A) == Val({[i \in 1..Rows(a) |-> << SumSeq(a[i]) >>] : a \in {A}})

\* np.clip(A, lo, hi) == minimum(hi, maximum(A, lo))
NpClip(A, lo, hi) ==
    Val({[i \in 1..Rows(a) |-> [j \in 1..Cols(a) |->
              LET m == IF a[i][j] < lo THEN lo ELSE a[i][j]
              IN  IF m > hi THEN hi ELSE m]]
            : a \in {A}})

Elements(A) == {A[i][j] : i \in 1..Rows(A), j \in 1..Cols(A)}

(* ------------------------------------------------------------------ *)
(* Collaborators from functions.py                                      *)
(* ------------------------------------------------------------------ *)
\* activate(pre_activation) -> (output, cache); outputs in (0, 1)
sigmoid(M) ==
    Val({<< [i \in 1..Rows(m) |-> [j \in 1..Cols(m) |->
                Clamp(Scale \div 2 + Rnd(m[i][j], 4), 1, Scale - 1)]],
            m >> : m \in {M}})

\* activate(pre_activation) -> (output, cache); outputs in (-1, 1)
tanh(M) ==
    Val({<< [i \in 1..Rows(m) |-> [j \in 1..Cols(m) |->
                Clamp(m[i][j], 1 - Scale, Scale - 1)]],
            m >> : m \in {M}})

\* 1 - tanh(x)^2
d_tanh(M) == Val({OneMinus(Had(th, th)) : th \in {tanh(M)[1]}})

\* init((rows, cols)): a fixed weight matrix per gate, entries in (-1, 1)
GateIndex(k) == CHOOSE n \in 1..4 : GateOrder[n] = k

xavier_init(k, r, c) ==
    [i \in 1..r |-> [j \in 1..c |->
        ((53 + GateIndex(k) * 29 + i * 71 + j * 37) % (2 * Scale - 1)) - (Scale - 1)]]

(* ------------------------------------------------------------------ *)
(* LSTM_Cell                                                            *)
(* ------------------------------------------------------------------ *)
init_params ==
    [k \in Gates |-> [w |-> xavier_init(k, hidden_dim, concat_dim),
                      b |-> Zeros(hidden_dim, 1)]]

init_grads(p) ==
    [k \in Gates |-> [w |-> ZerosLike(p[k].w), b |-> ZerosLike(p[k].b)]]

DefaultPrevOnes(prev, x) ==
    IF prev # None THEN prev ELSE [i \in 1..hidden_dim |-> [j \in 1..Rows(x) |-> Scale]]

\* a_prev if a_prev is not None else np.zeros((self.hidden_dim, x.shape[0]))
DefaultPrev(prev, x) == IF prev # None THEN prev ELSE Zeros(hidden_dim, Rows(x))

\* the array operations of Cell.forward raise on these shapes
ForwardShapesOK(p, x, a_prev, c_prev) ==
    LET a == DefaultPrev(a_prev, x)
        c == DefaultPrev(c_prev, x)
    IN  /\ Cols(a) = Rows(x)
        /\ \A k \in Gates : Cols(p[k].w) = Rows(a) + Cols(x)
        /\ Shape(c) = << hidden_dim, Rows(x) >>

GateAct(k, M) == IF k = "c" THEN tanh(M) ELSE sigmoid(M)

\* func['a'](np.dot(self.params[k]['w'], state['z']) + self.params[k]['b']), per gate
GateOutputs(p, z) ==
    [k \in Gates |-> GateAct(k, AddBias(Dot(p[k].w, z), p[k].b))]

\* c_out, a_out and the records returned, from the gates' (output, cache) pairs
CellCombine(c_prev, z, act) ==
    Val({[state |-> [c_in |-> c_prev, z |-> z,
                     c |-> act["c"][1], u |-> act["u"][1],
                     o |-> act["o"][1], f |-> act["f"][1],
                     c_out |-> c_out,
                     a_out |-> Had(act["o"][1], tanh(c_out)[1])],
          cache |-> [k \in Gates |-> act[k][2]]]
            : c_out \in {MatAdd(Had(act["f"][1], c_prev), Had(act["u"][1], act["c"][1]))}})

CellGates(p, c_prev, z) ==
    Val({CellCombine(c_prev, z, act) : act \in {GateOutputs(p, z)}})

Cell_forward(p, x, a_prev_in, c_prev_in) ==
    Val({CellGates(p, c_prev, VStack(a_prev, Transpose(x)))
            : a_prev \in {DefaultPrev(a_prev_in, x)},
              c_prev \in {DefaultPrev(c_prev_in, x)}})

\* the local gradient d[gate] of each gate
GateDeltas(state, da_next, dc_out) ==
    [k \in Gates |->
        CASE k = "c" -> Had(Had(OneMinus(Had(state.c, state.c)), state.u), dc_out)
          [] k = "u" -> Had(Had(Had(state.u, OneMinus(state.u)), state.c), dc_out)
          [] k = "o" -> Had(Had(Had(state.o, OneMinus(state.o)), tanh(state.c_out)[1]), da_next)
          [] k = "f" -> Had(Had(Had(state.f, OneMinus(state.f)), state.c_in), dc_out)]

HiddenRowsLast(w) == SubSeq(Transpose(w), Cols(w) - hidden_dim + 1, Cols(w))

\* self.params[gate]['w'].T[:self.hidden_dim,:]
HiddenRows(w) == FirstRows(Transpose(w), hidden_dim)

\* da_in = zeros_like(da_next); for gate in c, u, o, f: da_in += dot(..., d[gate])
RECURSIVE DaIn(_, _, _, _)
DaIn(p, d, n, zero) ==
    IF n = 0 THEN zero
    ELSE MatAdd(DaIn(p, d, n - 1, zero), Dot(HiddenRows(p[GateOrder[n]].w), d[GateOrder[n]]))

\* dc_out = state['o'] * da_next * d_tanh(state['c_out']) + dc_next
DcOut(state, da_next, dc_next) ==
    MatAdd(Had(Had(state.o, da_next), d_tanh(state.c_out)), dc_next)

\* da_in, dc_in and the step's gradients, from dc_out
CellGrads(p, state, da_next, dc_out) ==
    Val({[da_in |-> DaIn(p, d, 4, ZerosLike(da_next)),
          dc_in |-> Had(dc_out, state.f),
          grads |-> [k \in Gates |-> [w |-> Dot(d[k], Transpose(state.z)),
                                      b |-> RowSum(d[k])]]]
            : d \in {GateDeltas(state, da_next, dc_out)}})

Cell_backward(p, state, da_next, dc_next) ==
    Val({CellGrads(p, state, da_next, dc_out)
            : dc_out \in {DcOut(state, da_next, dc_next)}})

ClipGradsNone(g, clip) == g

\* np.clip of every gate's gradients, when a clip bound is configured
ClipGrads(g, clip) ==
    IF clip = NoClip THEN g
    ELSE [k \in Gates |-> [w |-> NpClip(g[k].w, -clip, clip),
                           b |-> NpClip(g[k].b, -clip, clip)]]

\* self.params[gate][..] -= grads[gate][..] * self.learning_rate
ApplyGrads(p, g) ==
    [k \in Gates |-> [w |-> MatSub(p[k].w, MatScale(g[k].w, learning_rate)),
                      b |-> MatSub(p[k].b, MatScale(g[k].b, learning_rate))]]

StoreGradsCopy(h, id) == [heap |-> ((id + MaxCalls) :> h[id]) @@ h, ref |-> id + MaxCalls]

\* self.grads = grads: the attribute refers to the caller's dictionary
StoreGrads(h, id) == [heap |-> h, ref |-> id]

\* h: the gradient dictionaries alive, by object id; ref: what self.grads
\* refers to (0: not set); id: the dictionary passed as grads
update_params(p, h, ref, id, clip, store) ==
    LET st == IF store THEN StoreGrads(h, id) ELSE [heap |-> h, ref |-> ref]
    IN  Val({[params     |-> ApplyGrads(p, g),
              heap       |-> [st.heap EXCEPT ![id] = g],
              cell_grads |-> st.ref,
              applied    |-> g]
                : g \in {ClipGrads(st.heap[id], clip)}})

(* ------------------------------------------------------------------ *)
(* Output projection (Dense) and loss (L2_loss) from functions.py       *)
(* ------------------------------------------------------------------ *)
Dense_init ==
    [w  |-> [i \in 1..output_dim |-> [j \in 1..hidden_dim |->
                ((i * 67 + j * 41) % (2 * Scale - 1)) - (Scale - 1)]],
     b  |-> Zeros(output_dim, 1),
     x  |-> None,
     dw |-> Zeros(output_dim, hidden_dim),
     db |-> Zeros(output_dim, 1)]

Dense_forward(dn, a) ==
    [out |-> AddBias(Dot(dn.w, a), dn.b), self |-> [dn EXCEPT !.x = a]]

Dense_backward(dn, dl) ==
    [out  |-> Dot(dl, dn.w),
     self |-> [dn EXCEPT !.dw = MatAdd(@, Dot(Transpose(dl), Transpose(dn.x))),
                         !.db = MatAdd(@, RowSum(Transpose(dl)))]]

Dense_update_params(dn) ==
    [dn EXCEPT !.w  = MatSub(@, MatScale(dn.dw, learning_rate)),
               !.b  = MatSub(@, MatScale(dn.db, learning_rate)),
               !.dw = ZerosLike(@),
               !.db = ZerosLike(@)]

dloss(preds, targets) == [t \in 1..Len(preds) |-> MatSub(preds[t], targets[t])]

loss(pred, yt) ==
    [b \in 1..Rows(pred) |->
        SumSeq([o \in 1..Cols(pred) |->
                   FMul(pred[b][o] - yt[b][o], pred[b][o] - yt[b][o])])]

(* ------------------------------------------------------------------ *)
(* Inputs of a fit call                                                 *)
(* ------------------------------------------------------------------ *)
\* x: time_steps arrays of shape (batch_size, width)
InputX(steps, B, width) ==
    [t \in 1..steps |-> [b \in 1..B |-> [j \in 1..width |->
        ((47 + t * 61 + b * 83 + j * 13) % (2 * Scale + 1)) - Scale]]]

\* targets: time_steps arrays of shape (batch_size, output_dim)
InputY(steps, B) ==
    [t \in 1..steps |-> [b \in 1..B |-> [o \in 1..output_dim |->
        ((31 + t * 59 + b * 43 + o * 17) % (2 * Scale + 1)) - Scale]]]

\* a caller-supplied a_prev / c_prev of shape (hidden_dim, batch_size)
InputPrev(seed, B) ==
    [i \in 1..hidden_dim |-> [b \in 1..B |->
        ((seed * 37 + i * 29 + b * 53) % (2 * Scale - 1)) - (Scale - 1)]]

(* ------------------------------------------------------------------ *)
(* State                                                                *)
(* ------------------------------------------------------------------ *)
VARIABLES
    store_grads,  \* LSTM_Cell.store_grads
    grad_clip,    \* LSTM.grad_clip (NoClip: None)
    params,       \* LSTM_Cell.params
    activation,   \* LSTM.activation, the output projection
    cell_grads,   \* LSTM_Cell.grads: the id of a gradient dictionary, 0 when not set
    heap,         \* the gradient dictionaries alive, by object id
    pc,           \* where the fit call stands
    calls,        \* fit calls made so far
    fr,           \* the local variables of forward / backward / fit
    ret,          \* what the last fit call returned
    obs           \* history of the running call: what each callee was given and returned

vars == << store_grads, grad_clip, params, activation, cell_grads, heap,
           pc, calls, fr, ret, obs >>

EmptyFrame ==
    [x |-> << >>, y |-> << >>, a_prev |-> None, c_prev |-> None,
     states |-> << >>, caches |-> << >>, preds |-> << >>, t |-> 0,
     das |-> << >>, da_next |-> None, dc_next |-> None, grads |-> 0]

EmptyObs(p) ==
    [pre |-> p, a0 |-> None, c0 |-> None, fwd |-> << >>, bwd |-> << >>,
     begun |-> << >>, updates |-> << >>, act_updates |-> << >>]

Restrict(h, S) == [i \in (DOMAIN h) \cap S |-> h[i]]

T == Len(fr.x)

Init ==
    /\ store_grads \in BOOLEAN
    /\ grad_clip \in ClipChoices
    /\ params = init_params
    /\ activation = Dense_init
    /\ cell_grads = 0
    /\ heap = [i \in {} |-> 0]
    /\ pc = "idle"
    /\ calls = 0
    /\ fr = EmptyFrame
    /\ ret = None
    /\ obs = EmptyObs(init_params)

(* ------------------------------------------------------------------ *)
(* LSTM.fit: forward, then backward, then the losses                    *)
(* ------------------------------------------------------------------ *)
\* fit(x, targets, a_prev, c_prev) is called; forward starts (lines 42-44)
Fit ==
    /\ pc = "idle"
    /\ calls < MaxCalls
    /\ \E steps \in 1..MaxT, B \in BatchSizes,
          width \in {x_dim, x_dim + 1}, a_given \in BOOLEAN, c_given \in BOOLEAN :
          LET a0 == IF a_given THEN InputPrev(1, B) ELSE None
              c0 == IF c_given THEN InputPrev(2, B) ELSE None
          IN  /\ fr' = [EmptyFrame EXCEPT !.x = InputX(steps, B, width),
                                          !.y = InputY(steps, B),
                                          !.a_prev = a0, !.c_prev = c0,
                                          !.t = 1]
              /\ obs' = [EmptyObs(params) EXCEPT !.a0 = a0, !.c0 = c0]
    /\ calls' = calls + 1
    /\ pc' = "forward"
    /\ ret' = None
    /\ UNCHANGED << store_grads, grad_clip, params, activation, cell_grads, heap >>

NextPrevStale(state) == << state.a_out, state.c_in >>

\* a_prev, c_prev = state['a_out'], state['c_out']
NextPrev(state) == << state.a_out, state.c_out >>

\* one iteration of the loop of LSTM.forward (lines 45-51)
ForwardStep ==
    /\ pc = "forward"
    /\ fr.t <= T
    /\ ForwardShapesOK(params, fr.x[fr.t], fr.a_prev, fr.c_prev)
    /\ \E xt \in {fr.x[fr.t]} :
       \E r \in {Cell_forward(params, xt, fr.a_prev, fr.c_prev)} :
       \E dn \in {Dense_forward(activation, r.state.a_out)}, nx \in {NextPrev(r.state)} :
           /\ fr' = [fr EXCEPT !.states = Append(@, r.state),
                               !.caches = Append(@, r.cache),
                               !.preds = Append(@, Transpose(dn.out)),
                               !.a_prev = nx[1], !.c_prev = nx[2],
                               !.t = @ + 1]
           /\ activation' = dn.self
           /\ obs' = [obs EXCEPT !.fwd = Append(@, [x |-> xt, a_prev |-> fr.a_prev,
                                                    c_prev |-> fr.c_prev,
                                                    state |-> r.state, cache |-> r.cache])]
    /\ UNCHANGED << store_grads, grad_clip, params, cell_grads, heap, pc, calls, ret >>

\* an array operation of a forward step raises (on the shapes it is given,
\* or for any other cause); fit propagates it
ForwardRaise ==
    /\ pc = "forward"
    /\ fr.t <= T
    /\ pc' = "raised"
    /\ UNCHANGED << store_grads, grad_clip, params, activation, cell_grads, heap,
                    calls, fr, ret, obs >>

\* das = [self.activation.backward(d_loss[t]).T for t in range(...)]
RECURSIVE Das(_, _, _)
Das(dn, d_loss, n) ==
    IF n = 0 THEN [das |-> << >>, self |-> dn]
    ELSE Val({Val({[das |-> Append(prev.das, Transpose(r.out)), self |-> r.self]
                     : r \in {Dense_backward(prev.self, d_loss[n])}})
                : prev \in {Das(dn, d_loss, n - 1)}})

\* forward returns; backward starts, up to the loop (lines 52, 68-72)
BackwardBegin ==
    /\ pc = "forward"
    /\ fr.t = T + 1
    /\ \E d_loss \in {dloss(fr.preds, fr.y)} :
       \E r \in {Das(activation, d_loss, Len(d_loss))},
          id \in {calls}, zero \in {init_grads(params)} :
           /\ fr' = [fr EXCEPT !.das = r.das,
                               !.da_next = ZerosLike(r.das[1]),
                               !.dc_next = ZerosLike(fr.states[1].c_out),
                               !.grads = id,
                               !.t = T]
           /\ activation' = r.self
           /\ heap' = (id :> zero) @@ heap
           /\ obs' = [obs EXCEPT !.begun = Append(@, zero)]
    /\ pc' = "backward"
    /\ UNCHANGED << store_grads, grad_clip, params, cell_grads, calls, ret >>

AddDirectOverwrite(da_next, da) == da

\* da_next += da
AddDirect(da_next, da) == MatAdd(da_next, da)

AccumulateOverwrite(acc, grad_adds) == grad_adds

\* grads[gate][..] += grad_adds[gate][..]
Accumulate(acc, grad_adds) ==
    [k \in Gates |-> [w |-> MatAdd(acc[k].w, grad_adds[k].w),
                      b |-> MatAdd(acc[k].b, grad_adds[k].b)]]

\* one iteration of the loop of LSTM.backward (lines 73-78); eager: with the
\* update of line 79 inside the loop
BackwardBody(eager) ==
    /\ pc = "backward"
    /\ fr.t >= 1
    /\ \E state \in {fr.states[fr.t]}, da \in {AddDirect(fr.da_next, fr.das[fr.t])} :
       \E r \in {Cell_backward(params, state, da, fr.dc_next)} :
       \E h1 \in {[heap EXCEPT ![fr.grads] = Accumulate(heap[fr.grads], r.grads)]} :
       \E u \in {update_params(params, h1, cell_grads, fr.grads, grad_clip, store_grads)} :
           /\ fr' = [fr EXCEPT !.da_next = r.da_in, !.dc_next = r.dc_in, !.t = @ - 1]
           /\ obs' = [obs EXCEPT !.bwd = Append(@, [t |-> fr.t, state |-> state,
                                                    direct |-> fr.das[fr.t],
                                                    da_next |-> da, dc_next |-> fr.dc_next,
                                                    da_in |-> r.da_in, dc_in |-> r.dc_in,
                                                    grads |-> r.grads])]
           /\ IF eager
              THEN /\ params' = u.params
                   /\ heap' = u.heap
                   /\ cell_grads' = u.cell_grads
              ELSE /\ heap' = h1
                   /\ UNCHANGED << params, cell_grads >>
    /\ UNCHANGED << store_grads, grad_clip, activation, pc, calls, ret >>

BackwardStepEager == BackwardBody(TRUE)

BackwardStep == BackwardBody(FALSE)

\* an array operation of a reverse step raises; fit propagates it
BackwardRaise ==
    /\ pc = "backward"
    /\ fr.t >= 1
    /\ pc' = "raised"
    /\ UNCHANGED << store_grads, grad_clip, params, activation, cell_grads, heap,
                    calls, fr, ret, obs >>

\* self.cell.update_params(grads, self.grad_clip) (line 79)
CellUpdate ==
    /\ pc = "backward"
    /\ fr.t = 0
    /\ \E u \in {update_params(params, heap, cell_grads, fr.grads, grad_clip, store_grads)} :
           /\ params' = u.params
           /\ heap' = u.heap
           /\ cell_grads' = u.cell_grads
           /\ obs' = [obs EXCEPT !.updates = Append(@, [grads |-> heap[fr.grads],
                                                        clip |-> grad_clip,
                                                        before |-> params,
                                                        applied |-> u.applied,
                                                        steps |-> Len(obs.bwd)])]
    /\ pc' = "act_update"
    /\ UNCHANGED << store_grads, grad_clip, activation, calls, fr, ret >>

ActivationUpdateSkipped ==
    /\ pc = "act_update"
    /\ pc' = "loss"
    /\ UNCHANGED << store_grads, grad_clip, params, activation, cell_grads, heap,
                    calls, fr, ret, obs >>

\* self.activation.update_params(); return preds, targets (lines 80-81)
ActivationUpdate ==
    /\ pc = "act_update"
    /\ activation' = Dense_update_params(activation)
    /\ obs' = [obs EXCEPT !.act_updates = Append(@, [args |-> << >>,
                                                     cell_updates |-> Len(obs.updates)])]
    /\ pc' = "loss"
    /\ UNCHANGED << store_grads, grad_clip, params, cell_grads, heap, calls, fr, ret >>

\* np.stack([self.loss(pred, yt) for pred, yt in zip(preds, targets)]) (line 85);
\* the call's local variables die with it
FitReturn ==
    /\ pc = "loss"
    /\ ret' = [t \in 1..Len(fr.preds) |-> loss(fr.preds[t], fr.y[t])]
    /\ heap' = Restrict(heap, {cell_grads})
    /\ fr' = EmptyFrame
    /\ obs' = EmptyObs(params)
    /\ pc' = "idle"
    /\ UNCHANGED << store_grads, grad_clip, params, activation, cell_grads, calls >>

\* the exception leaves fit; the call's local variables die with it
Unwind ==
    /\ pc = "raised"
    /\ heap' = Restrict(heap, {cell_grads})
    /\ fr' = EmptyFrame
    /\ obs' = EmptyObs(params)
    /\ pc' = "idle"
    /\ UNCHANGED << store_grads, grad_clip, params, activation, cell_grads, calls, ret >>

Next ==
    \/ Fit
    \/ ForwardStep
    \/ ForwardRaise
    \/ BackwardBegin
    \/ BackwardStep
    \/ BackwardRaise
    \/ CellUpdate
    \/ ActivationUpdate
    \/ FitReturn
    \/ Unwind

Spec == Init /\ [][Next]_vars
(* ------------------------------------------------------------------ *)
(* Properties                                                           *)
(* ------------------------------------------------------------------ *)
Running == pc \in {"forward", "backward", "act_update", "loss", "raised"}
Batch == Rows(fr.x[1])
ZeroState == Zeros(hidden_dim, Batch)

RECURSIVE SumMats(_, _, _)
SumMats(ms, n, zero) == IF n = 0 THEN zero ELSE MatAdd(SumMats(ms, n - 1, zero), ms[n])

\* the elementwise sum of the gradients the Cell.backward calls so far returned
SumGrads(bwd) ==
    [k \in Gates |->
        [w |-> SumMats([i \in 1..Len(bwd) |-> bwd[i].grads[k].w], Len(bwd),
                       Zeros(hidden_dim, concat_dim)),
         b |-> SumMats([i \in 1..Len(bwd) |-> bwd[i].grads[k].b], Len(bwd),
                       Zeros(hidden_dim, 1))]]

\* the sum of the per-step gradients, each clamped into [-k, k] on its own
SumClampedGrads(bwd, k) ==
    [g \in Gates |->
        [w |-> SumMats([i \in 1..Len(bwd) |-> NpClip(bwd[i].grads[g].w, -k, k)], Len(bwd),
                       Zeros(hidden_dim, concat_dim)),
         b |-> SumMats([i \in 1..Len(bwd) |-> NpClip(bwd[i].grads[g].b, -k, k)], Len(bwd),
                       Zeros(hidden_dim, 1))]]

GradElems(g) == UNION {Elements(g[k].w) \cup Elements(g[k].b) : k \in Gates}

IsZero(A) == Elements(A) = {0}

\* C1: when a fit call fails at a step of the forward pass or of the reverse
\* traversal, update_params was never reached and every gate's weight and bias
\* equals its value from before the call.
C1_NoUpdateOnFailure ==
    pc = "raised" => (params = obs.pre /\ obs.updates = << >>)

\* a failure in the reverse traversal, gradients already accumulated that an
\* update would have applied
C1_Witness ==
    /\ pc = "raised"
    /\ Len(obs.bwd) >= 1
    /\ ApplyGrads(params, ClipGrads(heap[fr.grads], grad_clip)) # params

\* C2: in a backward call over T steps the parameters do not change while the
\* Cell.backward steps run; Cell.update_params is called exactly once, after
\* the last reverse step, and then the output projection's update_params
\* exactly once, with no arguments.
C2_UpdateOnceAfterTraversal ==
    /\ pc \in {"forward", "backward", "raised"} =>
          /\ params = obs.pre
          /\ obs.updates = << >>
          /\ obs.act_updates = << >>
    /\ pc = "act_update" =>
          /\ Len(obs.updates) = 1
          /\ obs.updates[1].steps = T
          /\ obs.updates[1].before = obs.pre
          /\ obs.act_updates = << >>
    /\ pc = "loss" =>
          /\ Len(obs.updates) = 1
          /\ obs.updates[1].steps = T
          /\ Len(obs.act_updates) = 1
          /\ obs.act_updates[1].args = << >>
          /\ obs.act_updates[1].cell_updates = 1

C2_Witness ==
    /\ pc = "loss"
    /\ T >= 2
    /\ params # obs.pre
    /\ Len(obs.bwd) = T

\* C3: the gradients handed to Cell.update_params are, for every gate, the
\* elementwise sum of the T per-step gradients Cell.backward returned, the
\* accumulator being zero when the backward pass starts.
C3_AccumulatedSum ==
    /\ pc = "backward" => heap[fr.grads] = SumGrads(obs.bwd)
    /\ (pc = "backward" /\ obs.bwd = << >>) =>
          /\ GradElems(heap[fr.grads]) = {0}
          /\ obs.begun = << heap[fr.grads] >>
    /\ \A n \in 1..Len(obs.updates) :
          /\ Len(obs.bwd) = T
          /\ T >= 1
          /\ obs.updates[n].grads = SumGrads(obs.bwd)

\* two steps with non-zero gradients for a gate: the sum is neither step's
\* gradient nor their average
C3_Witness ==
    /\ pc = "act_update"
    /\ T = 2
    /\ \E k \in Gates :
          /\ ~IsZero(obs.bwd[1].grads[k].w)
          /\ ~IsZero(obs.bwd[2].grads[k].w)
          /\ obs.updates[1].grads[k].w # obs.bwd[2].grads[k].w
          /\ obs.updates[1].grads[k].w = MatAdd(obs.bwd[1].grads[k].w, obs.bwd[2].grads[k].w)

\* C4: with a clip bound k configured, every element of every gate's weight
\* and bias gradient that update_params applies lies in [-k, k], and it is the
\* accumulated gradient clamped (not a sum of clamped steps).
C4_ClipBounded ==
    \A n \in 1..Len(obs.updates) :
        LET u == obs.updates[n]
        IN  u.clip # NoClip =>
              /\ \A e \in GradElems(u.applied) : -u.clip <= e /\ e <= u.clip
              /\ \A g \in Gates :
                    /\ \A i \in 1..hidden_dim : \A j \in 1..concat_dim :
                          u.applied[g].w[i][j] = Clamp(SumGrads(obs.bwd)[g].w[i][j], -u.clip, u.clip)
                    /\ \A i \in 1..hidden_dim :
                          u.applied[g].b[i][1] = Clamp(SumGrads(obs.bwd)[g].b[i][1], -u.clip, u.clip)
              /\ pc = "act_update" =>
                    \A g \in Gates :
                        /\ \A i \in 1..hidden_dim : \A j \in 1..concat_dim :
                              params[g].w[i][j] =
                                  u.before[g].w[i][j] - FMul(u.applied[g].w[i][j], learning_rate)
                        /\ \A i \in 1..hidden_dim :
                              params[g].b[i][1] =
                                  u.before[g].b[i][1] - FMul(u.applied[g].b[i][1], learning_rate)

\* an accumulated gradient beyond a positive bound, whose clamp differs from
\* the sum of the clamped steps
C4_Witness ==
    /\ pc = "act_update"
    /\ grad_clip > 0
    /\ T >= 2
    /\ \E e \in GradElems(obs.updates[1].grads) : e > grad_clip
    /\ \E e \in GradElems(obs.updates[1].grads) : e < -grad_clip
    /\ obs.updates[1].applied # SumClampedGrads(obs.bwd, grad_clip)
    /\ \E e \in GradElems(SumClampedGrads(obs.bwd, grad_clip)) : Abs(e) > grad_clip

\* C5: backward visits the time steps in reverse, each stored state once; the
\* da_next given to Cell.backward at step t is that step's direct gradient
\* plus the da_in step t+1 returned, the dc_next is the dc_in step t+1
\* returned, and both carried terms are zero at the last time step.
C5_ReverseChain ==
    /\ \A i \in 1..Len(obs.bwd) :
          LET e == obs.bwd[i]
          IN  /\ e.t = T - i + 1
              /\ e.state = fr.states[e.t]
              /\ e.direct = fr.das[e.t]
              /\ e.da_next = MatAdd(fr.das[e.t],
                                    IF i = 1 THEN ZeroState ELSE obs.bwd[i - 1].da_in)
              /\ e.dc_next = IF i = 1 THEN ZeroState ELSE obs.bwd[i - 1].dc_in
    /\ pc = "backward" => Len(obs.bwd) = T - fr.t
    /\ pc \in {"act_update", "loss"} => Len(obs.bwd) = T

\* a step that gets a non-zero direct gradient and non-zero carried terms
C5_Witness ==
    /\ pc = "act_update"
    /\ T = 2
    /\ ~IsZero(obs.bwd[1].da_in)
    /\ ~IsZero(obs.bwd[1].dc_in)
    /\ ~IsZero(fr.das[1])
    /\ obs.bwd[2].da_next # fr.das[1]
    /\ obs.bwd[2].da_next # obs.bwd[1].da_in

\* C6: in forward the first Cell.forward gets the caller's a_prev / c_prev (or
\* none), every later step the a_out / c_out of the step before; one state,
\* one cache and one prediction are collected per step, in time order.
C6_ForwardChain ==
    Running =>
        /\ \A i \in 1..Len(obs.fwd) :
              LET e == obs.fwd[i]
              IN  /\ e.x = fr.x[i]
                  /\ e.a_prev = IF i = 1 THEN obs.a0 ELSE obs.fwd[i - 1].state.a_out
                  /\ e.c_prev = IF i = 1 THEN obs.c0 ELSE obs.fwd[i - 1].state.c_out
                  /\ fr.states[i] = e.state
                  /\ fr.caches[i] = e.cache
                  /\ pc \in {"forward", "backward", "raised"} =>
                        fr.preds[i] = Transpose(AddBias(Dot(activation.w, e.state.a_out),
                                                        activation.b))
        /\ Len(fr.states) = Len(obs.fwd)
        /\ Len(fr.caches) = Len(obs.fwd)
        /\ Len(fr.preds) = Len(obs.fwd)
        /\ pc = "forward" => Len(obs.fwd) = fr.t - 1
        /\ pc \in {"backward", "act_update", "loss"} => Len(obs.fwd) = T

\* a second step after a first that was given the caller's state
C6_Witness ==
    /\ pc = "backward"
    /\ T = 2
    /\ obs.a0 # None
    /\ obs.c0 # None
    /\ obs.fwd[1].state.c_out # obs.fwd[1].state.c_in
    /\ obs.fwd[1].state.a_out # obs.a0
    /\ obs.fwd[2].state.a_out # obs.fwd[1].state.a_out

\* C7: Cell.forward with a_prev and / or c_prev absent returns the state it
\* returns for an explicit zero array of shape (hidden_dim, batch_size) in
\* its place, batch_size the row count of x; each is defaulted on its own.
C7_DefaultZeroState ==
    (pc = "forward" /\ Len(obs.fwd) = 1) =>
        LET e == obs.fwd[1]
            zero == Zeros(hidden_dim, Rows(e.x))
        IN  /\ Shape(e.state.a_out) = << hidden_dim, Rows(e.x) >>
            /\ Shape(e.state.c_out) = << hidden_dim, Rows(e.x) >>
            /\ e.a_prev = None =>
                  e.state = Cell_forward(params, e.x, zero, e.c_prev).state
            /\ e.c_prev = None =>
                  e.state = Cell_forward(params, e.x, e.a_prev, zero).state
            /\ (e.a_prev = None /\ e.c_prev = None) =>
                  e.state = Cell_forward(params, e.x, zero, zero).state

\* a_prev absent with a non-zero c_prev supplied, on a batch of three rows
C7_Witness ==
    /\ pc = "forward"
    /\ Len(obs.fwd) = 1
    /\ obs.fwd[1].a_prev = None
    /\ obs.fwd[1].c_prev # None
    /\ ~IsZero(obs.fwd[1].c_prev)
    /\ Rows(obs.fwd[1].x) = 3
    /\ IsZero(SubSeq(obs.fwd[1].state.z, 1, hidden_dim))
    /\ obs.fwd[1].state.c_in = obs.fwd[1].c_prev

C9_StoredPreClip ==
    (pc = "act_update" /\ store_grads /\ grad_clip # NoClip) =>
        heap[cell_grads] = obs.updates[1].grads

\* the first hidden_dim columns of a gate's weight matrix
FirstCols(w, n) == [i \in 1..Rows(w) |-> SubSeq(w[i], 1, n)]

\* C10: the da_in Cell.backward returns is the sum over the gates c, u, o, f
\* of (the gate's weights restricted to the first hidden_dim columns,
\* transposed) times the gate's local gradient, and has the shape of da_next.
C10_DaInHiddenColumns ==
    (pc = "backward" /\ Len(obs.bwd) >= 1) =>
        LET e == obs.bwd[Len(obs.bwd)]
            d == GateDeltas(e.state, e.da_next, DcOut(e.state, e.da_next, e.dc_next))
            part == [n \in 1..4 |->
                        Dot(Transpose(FirstCols(obs.pre[GateOrder[n]].w, hidden_dim)),
                            d[GateOrder[n]])]
        IN  /\ e.da_in = MatAdd(MatAdd(part[1], part[2]), MatAdd(part[3], part[4]))
            /\ Shape(e.da_in) = Shape(e.da_next)

\* every gate has a non-zero local gradient, and the input columns of the
\* weights would have contributed had they been used
C10_Witness ==
    /\ pc = "backward"
    /\ Len(obs.bwd) >= 1
    /\ LET e == obs.bwd[Len(obs.bwd)]
           d == GateDeltas(e.state, e.da_next, DcOut(e.state, e.da_next, e.dc_next))
       IN  /\ \A k \in Gates : ~IsZero(d[k])
           /\ ~IsZero(e.da_in)
           /\ \E k \in Gates :
                 ~IsZero(Dot(SubSeq(Transpose(obs.pre[k].w), hidden_dim + 1, concat_dim), d[k]))
====
